---------------------------- MODULE Spec2Model ----------------------------
(***************************************************************************)
(* Model of dihedron/diffuse (src/main.go): the log level resolver         *)
(* (init), the profiling coordinator (CPU capture, heap snapshots on       *)
(* SIGUSR1) and the mount lifecycle controller (main, the interrupt        *)
(* listener goroutine, server.Wait).                                       *)
(***************************************************************************)
EXTENDS Integers, Sequences, FiniteSets, TLC

VARIABLES
  env,          \* <PROG>_LOG_LEVEL as os.LookupEnv reports it: [ok, value]
  optLevel,     \* options.Level of init (slog.HandlerOptions)
  installed,    \* slog.SetDefault was called by init
  threshold,    \* threshold of the process-wide slog logger in effect
  logged,       \* records handed to slog.Debug/Info/Error
  emitted,      \* records the logger let through
  opt,          \* parsed command line options
  pc,           \* position of the main goroutine
  exited,       \* the process has ended
  exitCode,     \* its exit status (meaningful when exited)
  cpuStarts,    \* calls of pprof.StartCPUProfile
  cpuStops,     \* calls of pprof.StopCPUProfile
  deferStop,    \* defer pprof.StopCPUProfile() is registered
  mount,        \* the OS mount: "none", "mounted", "released"
  serving,      \* the server's loops are running (server.Wait blocks)
  rootCalls,    \* calls of fs.NewLoopbackRoot
  mountCalls,   \* calls of fs.Mount
  mountOpts,    \* the fuse.MountOptions handed to fs.Mount
  notifyInt,    \* signal.Notify(signals, os.Interrupt, SIGTERM) is in effect
  signals,      \* the channel of capacity 1 of the interrupt listener
  lpc,          \* position of the interrupt listener goroutine
  unmountCalls, \* calls of server.Unmount
  unmountErr,   \* a call of server.Unmount returned an error
  intSent,      \* SIGINT/SIGTERM delivered to the process
  sigActive,    \* a SIGINT/SIGTERM was delivered while the mount was active
  notifyUsr,    \* signal.Notify(profile, SIGUSR1) is in effect
  profile,      \* the channel of capacity 1 of the heap-snapshot listener
  mpc,          \* position of the writeMemProfile goroutine
  i,            \* writeMemProfile's counter
  attempts,     \* snapshot attempts so far: sequence of [seq, result]
  usrSent,      \* SIGUSR1 delivered to the process
  triggers      \* SIGUSR1 delivered after the listener was armed

vars == << env, optLevel, installed, threshold, logged, emitted, opt, pc,
           exited, exitCode, cpuStarts, cpuStops, deferStop, mount, serving,
           rootCalls, mountCalls, mountOpts,
           notifyInt, signals, lpc, unmountCalls, unmountErr, intSent, sigActive,
           notifyUsr, profile, mpc, i, attempts, usrSent, triggers >>

logVars  == << logged, emitted >>
initVars == << env, optLevel, installed, threshold >>
cpuVars  == << cpuStarts, cpuStops, deferStop >>
intVars  == << notifyInt, signals, lpc, unmountCalls, unmountErr, intSent, sigActive >>
memVars  == << notifyUsr, profile, mpc, i, attempts, usrSent, triggers >>
callVars == << rootCalls, mountCalls, mountOpts >>
mntVars  == << mount, serving, callVars >>
exitVars == << exited, exitCode >>

-----------------------------------------------------------------------------
(* Bounds of the model *)

MaxSignals == 2
MaxTriggers == 3

-----------------------------------------------------------------------------
(* slog levels *)

LevelDebug == -4
LevelInfo == 0
LevelWarn == 4
LevelError == 8
LevelNone == 1000

RealSeverities == {LevelDebug, LevelInfo, LevelWarn, LevelError}

\* The level of slog's default logger, in effect until slog.SetDefault.
SlogDefaultLevel == LevelInfo

-----------------------------------------------------------------------------
(* The log level resolver: init *)

\* os.LookupEnv returns (level, ok): env is [ok, value], value a sequence of
\* characters.
EnvAbsent == [ok |-> FALSE, value |-> << >>]
EnvSet(s) == [ok |-> TRUE, value |-> s]

UpperLetters ==
  <<"A", "B", "C", "D", "E", "F", "G", "H", "I", "J", "K", "L", "M", "N", "O", "P", "Q", "R", "S", "T", "U", "V", "W", "X", "Y", "Z">>
LowerLetters ==
  <<"a", "b", "c", "d", "e", "f", "g", "h", "i", "j", "k", "l", "m", "n", "o", "p", "q", "r", "s", "t", "u", "v", "w", "x", "y", "z">>

\* unicode.ToLower on one character: an upper-case letter maps to its
\* lower-case letter, every other character (digits, blanks, lower-case
\* letters) to itself.
LowerChar(c) ==
  IF \E k \in 1..Len(UpperLetters) : UpperLetters[k] = c
    THEN LowerLetters[CHOOSE k \in 1..Len(UpperLetters) : UpperLetters[k] = c]
    ELSE c

UpperChar(c) ==
  IF \E k \in 1..Len(LowerLetters) : LowerLetters[k] = c
    THEN UpperLetters[CHOOSE k \in 1..Len(LowerLetters) : LowerLetters[k] = c]
    ELSE c

\* strings.ToLower
ToLower(s) == [k \in 1..Len(s) |-> LowerChar(s[k])]

\* The case labels of the switch in init.
DebugTokens ==
  { <<"d", "e", "b", "u", "g">>,
    <<"d", "b", "g">>,
    <<"d">>,
    <<"t", "r", "a", "c", "e">>,
    <<"t", "r", "c">>,
    <<"t">> }
InfoTokens ==
  { <<"i", "n", "f", "o", "r", "m", "a", "t", "i", "o", "n", "a", "l">>,
    <<"i", "n", "f", "o">>,
    <<"i", "n", "f">>,
    <<"i">> }
WarnTokens ==
  { <<"w", "a", "r", "n", "i", "n", "g">>,
    <<"w", "a", "r", "n">>,
    <<"w", "r", "n">>,
    <<"w">> }
ErrorTokens ==
  { <<"e", "r", "r", "o", "r">>,
    <<"e", "r", "r">>,
    <<"e">>,
    <<"f", "a", "t", "a", "l">>,
    <<"f", "t", "l">>,
    <<"f">> }
OffTokens ==
  { <<"o", "f", "f">>,
    <<"n", "o", "n", "e">>,
    <<"n", "u", "l", "l">>,
    <<"n", "i", "l">>,
    <<"n", "o">>,
    <<"n">> }

\* What the switch compares with its case labels: strings.ToLower(level).
SwitchTagExact(level) == level
SwitchTag(level) == ToLower(level)

\* options.Level at the end of init for a set variable of value level;
\* options.Level starts as LevelNone and no case matches an unknown token.
ResolveLevel(level) ==
  LET tag == SwitchTag(level) IN
  CASE tag \in DebugTokens -> LevelDebug
    [] tag \in InfoTokens  -> LevelInfo
    [] tag \in WarnTokens  -> LevelWarn
    [] tag \in ErrorTokens -> LevelError
    [] tag \in OffTokens   -> LevelNone
    [] OTHER               -> LevelNone

\* The case "off", "none", ... returns from init before slog.SetDefault.
ReturnsEarly(level) == SwitchTag(level) \in OffTokens

\* init(): resolve options.Level from the environment and install the text
\* handler as the process-wide logger, unless the switch returned early.
RunInit ==
  /\ pc = "init"
  /\ ~exited
  /\ LET lvl   == IF env.ok THEN ResolveLevel(env.value) ELSE LevelNone
         early == env.ok /\ ReturnsEarly(env.value)
     IN /\ optLevel' = lvl
        /\ installed' = ~early
        /\ threshold' = IF early THEN threshold ELSE lvl
  /\ pc' = "parse"
  /\ UNCHANGED << env, logVars, opt, exitVars, cpuVars, mntVars, intVars, memVars >>

-----------------------------------------------------------------------------
(* Logging *)

\* A record handed to slog: its level, its message, the attribute keys it
\* carries and (for the heap-snapshot records) the sequence number in the
\* file name, -1 otherwise.
Rec(level, msg, keys, n) == [level |-> level, msg |-> msg, keys |-> keys, n |-> n]

Paths == {"original", "mountpoint"}

\* slog.Debug/Info/Error with the process-wide logger: a record is written
\* when its level reaches the logger's threshold.
Slog(recs) ==
  /\ logged' = logged \cup recs
  /\ emitted' = emitted \cup {r \in recs : r.level >= threshold}

-----------------------------------------------------------------------------
(* Process exit *)

\* os.Exit(code): the process ends at once; deferred calls do not run.
OsExit(code) ==
  /\ exited' = TRUE
  /\ exitCode' = code
  /\ UNCHANGED cpuVars

\* main returns and no deferred call runs.
ReturnWithoutDeferred ==
  /\ exited' = TRUE
  /\ exitCode' = 0
  /\ UNCHANGED cpuVars

\* main returns: the deferred pprof.StopCPUProfile (if registered) runs and
\* the process ends with status 0.
ReturnFromMain ==
  /\ exited' = TRUE
  /\ exitCode' = 0
  /\ cpuStops' = IF deferStop THEN cpuStops + 1 ELSE cpuStops
  /\ UNCHANGED << cpuStarts, deferStop >>

Signo(sig) == IF sig = "SIGINT" THEN 2 ELSE 15

\* The Go runtime's action for a SIGINT or SIGTERM nobody asked to be
\* notified of: the process dies from the signal, no deferred call runs.
DieFromSignal(sig) ==
  /\ exited' = TRUE
  /\ exitCode' = 128 + Signo(sig)

-----------------------------------------------------------------------------
(* main, up to the mount *)

\* flags.Parse succeeded; slog.Debug("args").
ParseOk ==
  /\ pc = "parse" /\ ~exited
  /\ Slog({Rec(LevelDebug, "args", {"len"}, -1)})
  /\ pc' = "cpu"
  /\ UNCHANGED << initVars, opt, exitVars, cpuVars, mntVars, intVars, memVars >>

\* flags.Parse failed (a required positional argument is missing, an
\* unknown flag): slog.Error and os.Exit(1).
ParseFail ==
  /\ pc = "parse" /\ ~exited
  /\ Slog({Rec(LevelError, "error parsing command line", {"error"}, -1)})
  /\ OsExit(1)
  /\ pc' = "exited"
  /\ UNCHANGED << initVars, opt, mntVars, intVars, memVars >>

\* if options.CpuProfile != nil: os.Create succeeded, the capture starts and
\* its stop is deferred. Without the option the block is skipped.
CpuProfileStep ==
  /\ pc = "cpu" /\ ~exited
  /\ IF opt.cpuProfile
       THEN /\ Slog({Rec(LevelInfo, "writing cpu profile", {"filename"}, -1)})
            /\ cpuStarts' = cpuStarts + 1
            /\ deferStop' = TRUE
            /\ UNCHANGED cpuStops
       ELSE UNCHANGED << logVars, cpuVars >>
  /\ pc' = "mem"
  /\ UNCHANGED << initVars, opt, exitVars, mntVars, intVars, memVars >>

\* os.Create of the CPU profile file failed and main goes on without the
\* capture.
CpuProfileFailGoesOn ==
  /\ pc = "cpu" /\ ~exited
  /\ opt.cpuProfile
  /\ Slog({Rec(LevelInfo, "writing cpu profile", {"filename"}, -1),
           Rec(LevelError, "error opening CPU profile output file",
               {"filename", "error"}, -1)})
  /\ pc' = "mem"
  /\ UNCHANGED << initVars, opt, exitVars, cpuVars, mntVars, intVars, memVars >>

\* os.Create of the CPU profile file failed: slog.Error and os.Exit(3).
CpuProfileFail ==
  /\ pc = "cpu" /\ ~exited
  /\ opt.cpuProfile
  /\ Slog({Rec(LevelInfo, "writing cpu profile", {"filename"}, -1),
           Rec(LevelError, "error opening CPU profile output file",
               {"filename", "error"}, -1)})
  /\ OsExit(3)
  /\ pc' = "exited"
  /\ UNCHANGED << initVars, opt, mntVars, intVars, memVars >>

\* if options.MemProfile != nil: the channel of capacity 1 is made, SIGUSR1
\* is routed to it and writeMemProfile starts; then the note about graceful
\* unmounting when either profile was asked for.
MemProfileStep ==
  /\ pc = "mem" /\ ~exited
  /\ Slog((IF opt.memProfile
             THEN {Rec(LevelInfo, "send SIGUSR1 to dump memory profile", {"pid"}, -1)}
             ELSE {})
          \cup
          (IF opt.cpuProfile \/ opt.memProfile
             THEN {Rec(LevelInfo, "you must unmount gracefully", {}, -1)}
             ELSE {}))
  /\ IF opt.memProfile
       THEN /\ notifyUsr' = TRUE
            /\ profile' = << >>
            /\ mpc' = "recv"
            /\ i' = 0
       ELSE UNCHANGED << notifyUsr, profile, mpc, i >>
  /\ pc' = "root"
  /\ UNCHANGED << initVars, opt, exitVars, cpuVars, mntVars, intVars,
                  attempts, usrSent, triggers >>

\* fs.NewLoopbackRoot succeeded.
LoopbackRootOk ==
  /\ pc = "root" /\ ~exited
  /\ Slog({Rec(LevelDebug, "creating loopback root", {"original"}, -1)})
  /\ rootCalls' = rootCalls + 1
  /\ pc' = "mount"
  /\ UNCHANGED << initVars, opt, exitVars, cpuVars, mount, serving,
                  mountCalls, mountOpts, intVars, memVars >>

\* fs.NewLoopbackRoot failed and main goes on to the mount all the same.
LoopbackRootFailGoesOn ==
  /\ pc = "root" /\ ~exited
  /\ Slog({Rec(LevelDebug, "creating loopback root", {"original"}, -1),
           Rec(LevelError, "error creating loopback filesystem",
               {"original", "error"}, -1)})
  /\ rootCalls' = rootCalls + 1
  /\ pc' = "mount"
  /\ UNCHANGED << initVars, opt, exitVars, cpuVars, mount, serving,
                  mountCalls, mountOpts, intVars, memVars >>

\* fs.NewLoopbackRoot failed: slog.Error and os.Exit(1).
LoopbackRootFail ==
  /\ pc = "root" /\ ~exited
  /\ Slog({Rec(LevelDebug, "creating loopback root", {"original"}, -1),
           Rec(LevelError, "error creating loopback filesystem",
               {"original", "error"}, -1)})
  /\ rootCalls' = rootCalls + 1
  /\ OsExit(1)
  /\ pc' = "exited"
  /\ UNCHANGED << initVars, opt, mount, serving, mountCalls, mountOpts,
                  intVars, memVars >>

\* opts.MountOptions.Options: "default_permissions" is appended when
\* opts.AllowOther is set.
PermissionOptionsNone(allowOther) == << >>
PermissionOptions(allowOther) ==
  IF allowOther THEN <<"default_permissions">> ELSE << >>

\* "ro" is appended when options.ReadOnly is set.
ReadOnlyOptions(readOnly) == IF readOnly THEN <<"ro">> ELSE << >>

\* DirectMountStrict: options.DirectMount && options.Strict
StrictAlone(directMount, strict) == strict
DirectMountStrict(directMount, strict) == directMount /\ strict

\* The fuse.MountOptions main builds from the command line options.
MountOptions(o) ==
  [ AllowOther        |-> o.allowOther,
    Debug             |-> o.debug,
    DirectMount       |-> o.directMount,
    DirectMountStrict |-> DirectMountStrict(o.directMount, o.strict),
    FsName            |-> "original",
    Name              |-> "diffuse",
    Options           |-> PermissionOptions(o.allowOther)
                            \o ReadOnlyOptions(o.readOnly) ]

\* The zero value of fuse.MountOptions.
NoMountOptions ==
  [ AllowOther |-> FALSE, Debug |-> FALSE, DirectMount |-> FALSE,
    DirectMountStrict |-> FALSE, FsName |-> "", Name |-> "",
    Options |-> << >> ]

\* fs.Mount succeeded: the mount exists and the server's loops run.
MountOk ==
  /\ pc = "mount" /\ ~exited
  /\ mountOpts' = MountOptions(opt)
  /\ mountCalls' = mountCalls + 1
  /\ mount' = "mounted"
  /\ serving' = TRUE
  /\ pc' = "mounted"
  /\ UNCHANGED << initVars, logVars, opt, exitVars, cpuVars, rootCalls,
                  intVars, memVars >>

\* fs.Mount failed and main goes on to the listener and the wait.
MountFailGoesOn ==
  /\ pc = "mount" /\ ~exited
  /\ Slog({Rec(LevelError, "loopback filesystem mount failed",
               Paths \cup {"error"}, -1)})
  /\ mountOpts' = MountOptions(opt)
  /\ mountCalls' = mountCalls + 1
  /\ pc' = "mounted"
  /\ UNCHANGED << initVars, opt, exitVars, cpuVars, mount, serving,
                  rootCalls, intVars, memVars >>

\* fs.Mount failed: slog.Error and os.Exit(1).
MountFail ==
  /\ pc = "mount" /\ ~exited
  /\ Slog({Rec(LevelError, "loopback filesystem mount failed",
               Paths \cup {"error"}, -1)})
  /\ mountOpts' = MountOptions(opt)
  /\ mountCalls' = mountCalls + 1
  /\ OsExit(1)
  /\ pc' = "exited"
  /\ UNCHANGED << initVars, opt, mount, serving, rootCalls, intVars, memVars >>

-----------------------------------------------------------------------------
(* main after the mount, and the interrupt listener *)

\* slog.Info("loopback filesystem mounted"), make(chan os.Signal, 1),
\* signal.Notify(signals, os.Interrupt, syscall.SIGTERM) and the go
\* statement; main then calls server.Wait.
ArmInterruptListener ==
  /\ pc = "mounted" /\ ~exited
  /\ Slog({Rec(LevelInfo, "loopback filesystem mounted", Paths, -1)})
  /\ notifyInt' = TRUE
  /\ signals' = << >>
  /\ lpc' = "recv"
  /\ pc' = "wait"
  /\ UNCHANGED << initVars, opt, exitVars, cpuVars, mntVars, unmountCalls, unmountErr,
                  intSent, sigActive, memVars >>

\* Where the listener goroutine goes after its last statement: the function
\* literal ends, the goroutine is gone.
AfterUnmountedLoop == "recv"
AfterUnmounted == "done"

\* <-signals
ListenerReceive ==
  /\ lpc = "recv" /\ ~exited
  /\ signals # << >>
  /\ signals' = Tail(signals)
  /\ lpc' = "logUnmounting"
  /\ UNCHANGED << initVars, logVars, opt, pc, exitVars, cpuVars, mntVars,
                  notifyInt, unmountCalls, unmountErr, intSent, sigActive, memVars >>

\* slog.Info("unmounting filesystem", "original", ..., "mountpoint", ...)
ListenerLogUnmounting ==
  /\ lpc = "logUnmounting" /\ ~exited
  /\ Slog({Rec(LevelInfo, "unmounting filesystem", Paths, -1)})
  /\ lpc' = "unmount"
  /\ UNCHANGED << initVars, opt, pc, exitVars, cpuVars, mntVars, notifyInt,
                  signals, unmountCalls, unmountErr, intSent, sigActive, memVars >>

\* The listener goes on to its last record without unmounting anything.
ListenerUnmountSkipped ==
  /\ lpc = "unmount" /\ ~exited
  /\ mount = "mounted"
  /\ lpc' = "logUnmounted"
  /\ UNCHANGED << initVars, logVars, opt, pc, exitVars, cpuVars, mntVars,
                  notifyInt, signals, unmountCalls, unmountErr, intSent,
                  sigActive, memVars >>

\* server.Unmount() on a mounted filesystem: the mount is released and the
\* call waits for the server's loops to end.
ListenerUnmountOk ==
  /\ lpc = "unmount" /\ ~exited
  /\ mount = "mounted"
  /\ mount' = "released"
  /\ unmountCalls' = unmountCalls + 1
  /\ lpc' = "unmounting"
  /\ UNCHANGED << initVars, logVars, opt, pc, exitVars, cpuVars, serving,
                  callVars, notifyInt, signals, unmountErr, intSent,
                  sigActive, memVars >>

\* server.Unmount() returns an error, which the listener discards: the mount
\* point is busy, or the filesystem was already unmounted from outside.
ListenerUnmountErr ==
  /\ lpc = "unmount" /\ ~exited
  /\ unmountCalls' = unmountCalls + 1
  /\ unmountErr' = TRUE
  /\ lpc' = "logUnmounted"
  /\ UNCHANGED << initVars, logVars, opt, pc, exitVars, cpuVars, mntVars,
                  notifyInt, signals, intSent, sigActive, memVars >>

\* server.Unmount() returns once the server's loops have ended.
ListenerUnmountReturns ==
  /\ lpc = "unmounting" /\ ~exited
  /\ ~serving
  /\ lpc' = "logUnmounted"
  /\ UNCHANGED << initVars, logVars, opt, pc, exitVars, cpuVars, mntVars,
                  notifyInt, signals, unmountCalls, unmountErr, intSent, sigActive, memVars >>

\* slog.Info("filesystem unmounted", ...); the goroutine ends.
ListenerLogUnmounted ==
  /\ lpc = "logUnmounted" /\ ~exited
  /\ Slog({Rec(LevelInfo, "filesystem unmounted", Paths, -1)})
  /\ lpc' = AfterUnmounted
  /\ UNCHANGED << initVars, opt, pc, exitVars, cpuVars, mntVars, notifyInt,
                  signals, unmountCalls, unmountErr, intSent, sigActive, memVars >>

\* The filesystem is unmounted from outside the process (fusermount -u).
ExternalUnmount ==
  /\ ~exited
  /\ mount = "mounted"
  /\ mount' = "released"
  /\ UNCHANGED << initVars, logVars, opt, pc, exitVars, cpuVars, serving,
                  callVars, intVars, memVars >>

\* The server's loops end once the mount is gone.
LoopsExit ==
  /\ ~exited
  /\ serving /\ mount = "released"
  /\ serving' = FALSE
  /\ UNCHANGED << initVars, logVars, opt, pc, exitVars, cpuVars, mount,
                  callVars, intVars, memVars >>

\* server.Wait() returns.
WaitReturns ==
  /\ pc = "wait" /\ ~exited
  /\ ~serving
  /\ pc' = "return"
  /\ UNCHANGED << initVars, logVars, opt, exitVars, cpuVars, mntVars,
                  intVars, memVars >>

\* main returns after server.Wait.
MainReturns ==
  /\ pc = "return" /\ ~exited
  /\ ReturnFromMain
  /\ pc' = "exited"
  /\ UNCHANGED << initVars, logVars, opt, mntVars, intVars, memVars >>

\* A SIGINT or SIGTERM reaches the process. With signal.Notify in effect it
\* is sent to the channel without blocking (dropped when the channel is
\* full); otherwise the process dies from it.
DeliverInterrupt ==
  /\ ~exited
  /\ intSent < MaxSignals
  /\ \E sig \in {"SIGINT", "SIGTERM"} :
       IF notifyInt
         THEN /\ signals' = IF Len(signals) < 1 THEN Append(signals, sig) ELSE signals
              /\ UNCHANGED << pc, exitVars >>
         ELSE /\ DieFromSignal(sig)
              /\ pc' = "exited"
              /\ UNCHANGED signals
  /\ intSent' = intSent + 1
  /\ sigActive' = (sigActive \/ mount = "mounted")
  /\ UNCHANGED << initVars, logVars, opt, cpuVars, mntVars, notifyInt, lpc,
                  unmountCalls, unmountErr, memVars >>

-----------------------------------------------------------------------------
(* The heap-snapshot listener: writeMemProfile *)

\* i++
NextSeqStuck(n) == n
NextSeq(n) == n + 1

\* The attempt under way gets its result.
Finish(result) ==
  attempts' = [attempts EXCEPT ![Len(attempts)].result = result]

\* One iteration of "for range signals" up to os.Create: a trigger is taken
\* from the channel, the file name is built from i, i is incremented.
MemReceive ==
  /\ mpc = "recv" /\ ~exited
  /\ profile # << >>
  /\ profile' = Tail(profile)
  /\ attempts' = Append(attempts, [seq |-> i, result |-> "writing"])
  /\ i' = NextSeq(i)
  /\ Slog({Rec(LevelDebug, "writing memory profile", {"filename"}, i)})
  /\ mpc' = "create"
  /\ UNCHANGED << initVars, opt, pc, exitVars, cpuVars, mntVars, intVars,
                  notifyUsr, usrSent, triggers >>

\* Where writeMemProfile goes after a failed os.Create: continue.
AfterCreateFailedReturn == "done"
AfterCreateFailed == "recv"

\* os.Create failed: slog.Error and continue.
MemCreateFailed ==
  /\ mpc = "create" /\ ~exited
  /\ Slog({Rec(LevelError, "error creating memory profile file",
               {"filename", "error"}, attempts[Len(attempts)].seq)})
  /\ Finish("createFailed")
  /\ mpc' = AfterCreateFailed
  /\ UNCHANGED << initVars, opt, pc, exitVars, cpuVars, mntVars, intVars,
                  notifyUsr, profile, i, usrSent, triggers >>

\* os.Create succeeded, pprof.WriteHeapProfile(f), f.Close() succeeded.
MemWritten ==
  /\ mpc = "create" /\ ~exited
  /\ Finish("written")
  /\ mpc' = "recv"
  /\ UNCHANGED << initVars, logVars, opt, pc, exitVars, cpuVars, mntVars,
                  intVars, notifyUsr, profile, i, usrSent, triggers >>

\* f.Close() failed and the error is treated as fatal.
MemCloseFailedFatal ==
  /\ mpc = "create" /\ ~exited
  /\ Slog({Rec(LevelError, "error closing memory profile file",
               {"filename", "error"}, attempts[Len(attempts)].seq)})
  /\ Finish("closeFailed")
  /\ OsExit(1)
  /\ pc' = "exited"
  /\ UNCHANGED << initVars, opt, mntVars, intVars, notifyUsr, profile, mpc,
                  i, usrSent, triggers >>

\* os.Create succeeded, pprof.WriteHeapProfile(f), f.Close() failed:
\* slog.Error, and the loop goes on.
MemCloseFailed ==
  /\ mpc = "create" /\ ~exited
  /\ Slog({Rec(LevelError, "error closing memory profile file",
               {"filename", "error"}, attempts[Len(attempts)].seq)})
  /\ Finish("closeFailed")
  /\ mpc' = "recv"
  /\ UNCHANGED << initVars, opt, pc, exitVars, cpuVars, mntVars, intVars,
                  notifyUsr, profile, i, usrSent, triggers >>

\* A SIGUSR1 reaches the process. With signal.Notify in effect it is sent to
\* the channel without blocking, and dropped when the channel is full;
\* without it the Go runtime takes no action.
DeliverUsr1 ==
  /\ ~exited
  /\ usrSent < MaxTriggers
  /\ usrSent' = usrSent + 1
  /\ IF notifyUsr
       THEN /\ profile' = IF Len(profile) < 1
                            THEN Append(profile, "SIGUSR1") ELSE profile
            /\ triggers' = triggers + 1
       ELSE UNCHANGED << profile, triggers >>
  /\ UNCHANGED << initVars, logVars, opt, pc, exitVars, cpuVars, mntVars,
                  intVars, notifyUsr, mpc, i, attempts >>

-----------------------------------------------------------------------------
(* Specifications *)

\* The tokens of some length in every mix of letter cases.
CaseVariants(tok) ==
  { [k \in 1..Len(tok) |-> IF k \in up THEN UpperChar(tok[k]) ELSE tok[k]] :
      up \in SUBSET (1..Len(tok)) }

RecognizedTokens ==
  DebugTokens \cup InfoTokens \cup WarnTokens \cup ErrorTokens \cup OffTokens

\* Values no case label matches: empty, near misses, padded with a blank.
UnknownTokens ==
  { << >>, <<"x">>, <<"o", "f">>, <<"d", "e">>, <<"o", "n">>,
    <<"o", "f", "f", " ">>, <<" ", "n">>, <<"w", "a", "r", "m">>, <<"d", "e", "b", "u", "g", "1">> }

\* Every value of the variable the resolver is checked on.
AllEnv ==
  {EnvAbsent}
    \cup { EnvSet(v) : v \in UNION { CaseVariants(t) : t \in RecognizedTokens } }
    \cup { EnvSet(v) : v \in UNION { CaseVariants(t) : t \in UnknownTokens } }

\* The values the whole program is run with: one of each kind.
SampleEnv ==
  { EnvAbsent, EnvSet(<<"D", "E", "B", "U", "G">>), EnvSet(<<"w", "R", "n">>), EnvSet(<<"O", "F", "F">>), EnvSet(<<"b", "o", "g", "u", "s">>) }

\* The command line options main reads (Version apart).
Options ==
  [ cpuProfile : BOOLEAN, memProfile : BOOLEAN, allowOther : BOOLEAN,
    readOnly : BOOLEAN, directMount : BOOLEAN, strict : BOOLEAN,
    debug : BOOLEAN ]

\* The options of a run with no mount flag given.
PlainOptions ==
  { o \in Options : ~o.allowOther /\ ~o.readOnly /\ ~o.directMount
                      /\ ~o.strict /\ ~o.debug }

InitWith(envs, opts) ==
  /\ env \in envs
  /\ optLevel = LevelNone
  /\ installed = FALSE
  /\ threshold = SlogDefaultLevel
  /\ logged = {}
  /\ emitted = {}
  /\ opt \in opts
  /\ pc = "init"
  /\ exited = FALSE
  /\ exitCode = 0
  /\ cpuStarts = 0
  /\ cpuStops = 0
  /\ deferStop = FALSE
  /\ mount = "none"
  /\ serving = FALSE
  /\ rootCalls = 0
  /\ mountCalls = 0
  /\ mountOpts = NoMountOptions
  /\ notifyInt = FALSE
  /\ signals = << >>
  /\ lpc = "idle"
  /\ unmountCalls = 0
  /\ unmountErr = FALSE
  /\ intSent = 0
  /\ sigActive = FALSE
  /\ notifyUsr = FALSE
  /\ profile = << >>
  /\ mpc = "idle"
  /\ i = 0
  /\ attempts = << >>
  /\ usrSent = 0
  /\ triggers = 0

Init == InitWith(SampleEnv, PlainOptions)

Next ==
  \/ RunInit
  \/ ParseOk
  \/ ParseFail
  \/ CpuProfileStep
  \/ CpuProfileFail
  \/ MemProfileStep
  \/ LoopbackRootOk
  \/ LoopbackRootFail
  \/ MountOk
  \/ MountFail
  \/ ArmInterruptListener
  \/ ListenerReceive
  \/ ListenerLogUnmounting
  \/ ListenerUnmountOk
  \/ ListenerUnmountErr
  \/ ListenerUnmountReturns
  \/ ListenerLogUnmounted
  \/ ExternalUnmount
  \/ LoopsExit
  \/ WaitReturns
  \/ MainReturns
  \/ DeliverInterrupt
  \/ DeliverUsr1
  \/ MemReceive
  \/ MemCreateFailed
  \/ MemWritten
  \/ MemCloseFailed

Spec == Init /\ [][Next]_vars

\* The resolver alone, on every value of the variable.
NoOptions == CHOOSE o \in PlainOptions : ~o.cpuProfile /\ ~o.memProfile
InitLevel == InitWith(AllEnv, {NoOptions})
NextLevel == RunInit
SpecLevel == InitLevel /\ [][NextLevel]_vars

-----------------------------------------------------------------------------
(* Properties *)

Messages(recs) == {r.msg : r \in recs}

\* C1: a SIGINT or SIGTERM delivered while the mount is active leads to
\* exactly one unmount of the MountSession and to exit status 0; stated on
\* the final state: once the process has ended after such a signal, it ended
\* with status 0 and server.Unmount was called exactly once.
C1_InterruptUnmountsOnceExitsZero ==
  (exited /\ sigActive) => (exitCode = 0 /\ unmountCalls = 1)

\* C2: if the CPU capture was started, then on every exit by a normal
\* return, a signal-triggered shutdown (status 0) or a fatal backend or mount
\* failure (status 1) the capture has been stopped exactly once.
C2_CaptureStoppedOnEveryExit ==
  (exited /\ exitCode \in {0, 1} /\ cpuStarts > 0) => cpuStops = 1

\* C3: on a signal-triggered shutdown (the listener called server.Unmount
\* and the process ended with main returning) both the "unmounting
\* filesystem" and the "filesystem unmounted" records were handed to the
\* logger before the process ended.
C3_UnmountRecordsBeforeExit ==
  (exited /\ exitCode = 0 /\ unmountCalls > 0)
    => {"unmounting filesystem", "filesystem unmounted"} \subseteq Messages(logged)

\* C4: whichever trigger ended the serving wait, the terminal state is the
\* same: the mount is released, server.Wait is unblocked and the unmount
\* records naming the original path and the mount point have been logged.
C4_SameTerminalState ==
  (exited /\ exitCode = 0)
    => /\ mount = "released"
       /\ ~serving
       /\ \A m \in {"unmounting filesystem", "filesystem unmounted"} :
            \E r \in logged : r.msg = m /\ Paths \subseteq r.keys

\* C5: server.Unmount is called at most once in a run, and a SIGINT or
\* SIGTERM that is not the first one neither leads to another unmount
\* attempt nor ends the process: it leaves the listener, the count of
\* unmount calls and the process's exit state as they were.
C5_UnmountAtMostOnce ==
  [][ /\ unmountCalls' <= 1
      /\ (intSent >= 1 /\ intSent' = intSent + 1)
           => /\ unmountCalls' = unmountCalls
              /\ lpc' = lpc
              /\ exited' = exited /\ exitCode' = exitCode ]_vars

\* C5 witness: a second signal arrived after the first one had triggered the
\* unmount; it sits in the channel, the listener is gone, the process runs.
C5_Witness ==
  /\ intSent = 2 /\ unmountCalls = 1
  /\ lpc = "done" /\ signals # << >>
  /\ ~exited

\* C6: every SIGUSR1 delivered after the listener was armed results in one
\* snapshot attempt; stated as what that needs at every moment: each trigger
\* delivered so far was taken up by an attempt or is pending in the channel.
C6_EveryTriggerAttempted ==
  triggers = Len(attempts) + Len(profile)

\* C7: the k-th snapshot attempt (k from 0) uses sequence number k in its
\* file name, whatever the results of the earlier attempts, and the counter
\* is the number of attempts made.
C7_SequenceNumbers ==
  /\ \A k \in 1..Len(attempts) : attempts[k].seq = k - 1
  /\ mpc # "idle" => i = Len(attempts)
  /\ \A r \in logged : r.n >= 0 => r.n < Len(attempts)

\* C7 witness: three attempts, the first failed to create its file, the
\* second failed to close it.
C7_Witness ==
  /\ Len(attempts) = 3
  /\ attempts[1].result = "createFailed"
  /\ attempts[2].result = "closeFailed"
  /\ attempts[3].seq = 2

FailedResults == {"createFailed", "closeFailed"}

\* The error record of a failed attempt.
FailureRecord(a) ==
  Rec(LevelError,
      IF a.result = "createFailed" THEN "error creating memory profile file"
                                   ELSE "error closing memory profile file",
      {"filename", "error"}, a.seq)

\* C8: a snapshot attempt that fails is logged at error severity (and
\* written when the logger's threshold admits errors), does not end the
\* process and does not end the listener loop: the listener is back at
\* receiving triggers; and at every moment a listener that was started is
\* in its loop.
C8_FailedSnapshotIsRecovered ==
  [][ /\ (/\ Len(attempts) > 0
          /\ attempts[Len(attempts)].result = "writing"
          /\ Len(attempts') = Len(attempts)
          /\ attempts'[Len(attempts)].result \in FailedResults)
         => /\ mpc' = "recv"
            /\ exited' = exited /\ exitCode' = exitCode
            /\ FailureRecord(attempts'[Len(attempts)]) \in logged'
            /\ threshold <= LevelError
                 => FailureRecord(attempts'[Len(attempts)]) \in emitted'
      /\ notifyUsr' => mpc' \in {"recv", "create"} ]_vars

\* C8 witness: an attempt failed and a later trigger was taken up by a new
\* attempt.
C8_Witness ==
  \E k \in 1..Len(attempts) :
    /\ attempts[k].result \in FailedResults
    /\ k < Len(attempts)

\* C9: with a 'disabled' token in the environment (in any letter case) the
\* process-wide logger after init has a threshold above every real
\* severity, and no record is ever written.
C9_DisabledSilencesLogger ==
  (pc # "init" /\ env.ok /\ ToLower(env.value) \in OffTokens)
    => /\ \A sev \in RealSeverities : threshold > sev
       /\ emitted = {}

\* The value v is the case label, letter case apart.
SameButCase(v, label) ==
  /\ Len(v) = Len(label)
  /\ \A k \in 1..Len(label) : v[k] = label[k] \/ v[k] = UpperChar(label[k])

Matches(v, labels) == \E label \in labels : SameButCase(v, label)

\* C10: after init, options.Level is the documented level of the token,
\* compared without regard to letter case, and that level is installed for
\* the four real levels; an unrecognized token and an absent variable keep
\* the default level LevelNone, which is installed.
C10_LevelMapping ==
  pc # "init" =>
    /\ (env.ok /\ Matches(env.value, DebugTokens))
         => (optLevel = LevelDebug /\ installed /\ threshold = LevelDebug)
    /\ (env.ok /\ Matches(env.value, InfoTokens))
         => (optLevel = LevelInfo /\ installed /\ threshold = LevelInfo)
    /\ (env.ok /\ Matches(env.value, WarnTokens))
         => (optLevel = LevelWarn /\ installed /\ threshold = LevelWarn)
    /\ (env.ok /\ Matches(env.value, ErrorTokens))
         => (optLevel = LevelError /\ installed /\ threshold = LevelError)
    /\ (env.ok /\ Matches(env.value, OffTokens))
         => optLevel = LevelNone
    /\ (~env.ok \/ ~Matches(env.value, RecognizedTokens))
         => (optLevel = LevelNone /\ installed /\ threshold = LevelNone)

\* C10 witness: init has run on a token in mixed letter case.
C10_Witness ==
  /\ pc = "parse"
  /\ env = EnvSet(<<"i", "N", "f", "O", "r", "M", "a", "T", "i", "O", "n", "A", "l">>)
  /\ optLevel = LevelInfo
  /\ threshold = LevelInfo

-----------------------------------------------------------------------------
(* The start of main alone, on every combination of the options *)

InitStart == InitWith({EnvAbsent}, Options)

NextStart ==
  \/ RunInit
  \/ ParseOk
  \/ ParseFail
  \/ CpuProfileStep
  \/ CpuProfileFail
  \/ MemProfileStep
  \/ LoopbackRootOk
  \/ LoopbackRootFail
  \/ MountOk
  \/ MountFail

SpecStart == InitStart /\ [][NextStart]_vars

-----------------------------------------------------------------------------
(* Properties of the setup and of the exit *)

\* C11: once fs.NewLoopbackRoot has failed, the process has exited with a
\* non-zero status, fs.Mount was never called, no mount exists and
\* server.Unmount was never called.
C11_BackendFailureIsFatal ==
  "error creating loopback filesystem" \in Messages(logged)
    => /\ exited /\ exitCode # 0
       /\ mountCalls = 0
       /\ mount = "none"
       /\ unmountCalls = 0

\* C11 witness: the backend could not be constructed in a run that had
\* started the CPU capture and armed the heap-snapshot listener.
C11_Witness ==
  /\ "error creating loopback filesystem" \in Messages(logged)
  /\ rootCalls = 1
  /\ cpuStarts = 1 /\ notifyUsr
  /\ exited

\* C12: once fs.Mount has failed, the process has exited with a non-zero
\* status, server.Unmount was never called, the interrupt listener was never
\* installed and server.Wait was never entered.
C12_MountFailureIsFatal ==
  "loopback filesystem mount failed" \in Messages(logged)
    => /\ exited /\ exitCode # 0
       /\ unmountCalls = 0
       /\ ~notifyInt /\ lpc = "idle"
       /\ pc \notin {"mounted", "wait", "return"}
       /\ mount = "none" /\ ~serving

\* C12 witness: fs.Mount was called and failed.
C12_Witness ==
  /\ "loopback filesystem mount failed" \in Messages(logged)
  /\ mountCalls = 1
  /\ exited /\ exitCode = 1

\* C13: once the CPU profile file could not be created, the process has
\* exited with a non-zero status with the capture not started, the
\* heap-snapshot listener not armed, the backend not constructed and no
\* mount attempted; and no step in which a heap snapshot fails ends the
\* process.
C13_CpuFileFatalSnapshotNot ==
  [][ /\ ("error opening CPU profile output file" \in Messages(logged'))
           => /\ exited' /\ exitCode' # 0
              /\ cpuStarts' = 0
              /\ ~notifyUsr' /\ mpc' = "idle"
              /\ rootCalls' = 0
              /\ mountCalls' = 0 /\ mount' = "none"
      /\ (\E r \in logged' \ logged :
            r.msg \in {"error creating memory profile file",
                       "error closing memory profile file"})
           => (exited' = exited /\ exitCode' = exitCode /\ ~exited') ]_vars

\* C13 witness: the CPU profile file could not be created in a run that
\* also asked for heap snapshots.
C13_Witness ==
  /\ "error opening CPU profile output file" \in Messages(logged)
  /\ opt.memProfile
  /\ exited /\ exitCode = 3

\* C14: when flags.Parse reports a missing positional argument the program
\* ends as a usage error, with exit status 2, before any profiling, backend
\* construction or mount step.
C14_UsageErrorExitsTwo ==
  "error parsing command line" \in Messages(logged)
    => /\ exited /\ exitCode = 2
       /\ cpuStarts = 0 /\ ~notifyUsr
       /\ rootCalls = 0 /\ mountCalls = 0

\* The entries of opts.MountOptions.Options.
OptionList(mo) == {mo.Options[k] : k \in 1..Len(mo.Options)}

\* C15: the mount options handed to fs.Mount have AllowOther set exactly
\* when their option list holds "default_permissions", and both follow the
\* allow-other option alone, whatever the read-only, direct-mount, strict
\* and debug options are.
C15_AllowOtherWithDefaultPermissions ==
  mountCalls > 0
    => /\ mountOpts.AllowOther <=> "default_permissions" \in OptionList(mountOpts)
       /\ mountOpts.AllowOther = opt.allowOther

\* C15 witness: fs.Mount was called with allow-other and read-only given.
C15_Witness ==
  /\ mountCalls = 1
  /\ opt.allowOther /\ opt.readOnly /\ opt.strict /\ ~opt.directMount
  /\ mountOpts.Options = <<"default_permissions", "ro">>

\* C16: from the moment server.Wait has returned, the process can only end
\* by main returning: with status 0 and with the CPU capture, if it was
\* started, stopped exactly once then; and the capture is never stopped
\* while the process runs or the mount is served.
C16_CaptureStoppedAfterWait ==
  [][ /\ pc = "return"
           => /\ cpuStops = 0 /\ ~serving
              /\ pc' # "return"
                   => /\ exited' /\ exitCode' = 0
                      /\ cpuStops' = cpuStarts
      /\ cpuStops' <= 1
      /\ cpuStops' > 0 => (exited' /\ exitCode' = 0 /\ ~serving') ]_vars

\* C16 witness: the run captured a CPU profile and ended after a signal had
\* made the listener unmount.
C16_Witness ==
  /\ exited /\ exitCode = 0
  /\ cpuStarts = 1 /\ cpuStops = 1
  /\ unmountCalls = 1 /\ ~unmountErr

\* C18: the mount options handed to fs.Mount have DirectMountStrict set
\* exactly when both direct-mount and strict were given; it is never set
\* without DirectMount.
C18_StrictNeedsDirectMount ==
  mountCalls > 0
    => /\ mountOpts.DirectMountStrict <=> (opt.directMount /\ opt.strict)
       /\ mountOpts.DirectMountStrict => mountOpts.DirectMount
       /\ mountOpts.DirectMount = opt.directMount

\* C18 witness: strict was given without direct-mount and fs.Mount was
\* called.
C18_Witness ==
  /\ mountCalls = 1
  /\ opt.strict /\ ~opt.directMount
  /\ ~mountOpts.DirectMountStrict

-----------------------------------------------------------------------------
(* The mount lifecycle under fair scheduling *)

\* The steps of the main goroutine.
MainStep ==
  \/ RunInit
  \/ ParseOk
  \/ ParseFail
  \/ CpuProfileStep
  \/ CpuProfileFail
  \/ MemProfileStep
  \/ LoopbackRootOk
  \/ LoopbackRootFail
  \/ MountOk
  \/ MountFail
  \/ ArmInterruptListener
  \/ WaitReturns
  \/ MainReturns

\* The steps of the interrupt listener goroutine.
ListenerStep ==
  \/ ListenerReceive
  \/ ListenerLogUnmounting
  \/ ListenerUnmountOk
  \/ ListenerUnmountErr
  \/ ListenerUnmountReturns
  \/ ListenerLogUnmounted

InitLive == InitWith({EnvAbsent}, {o \in PlainOptions : ~o.memProfile})

NextLive ==
  \/ MainStep
  \/ ListenerStep
  \/ LoopsExit
  \/ ExternalUnmount
  \/ DeliverInterrupt

\* The Go scheduler runs every goroutine that can run: the main goroutine,
\* the listener and the server's loops. Signals and an unmount from outside
\* may or may not come.
SpecLive ==
  /\ InitLive
  /\ [][NextLive]_vars
  /\ WF_vars(MainStep)
  /\ WF_vars(ListenerStep)
  /\ WF_vars(LoopsExit)

\* The listener has taken a signal from the channel while the mount is
\* active.
SignalConsumed == lpc = "logUnmounting" /\ mount = "mounted"

-----------------------------------------------------------------------------
(* The two listeners *)

\* C19: a step of the heap-snapshot handler leaves the mount, the server's
\* loops, the CPU capture, the exit state, the main goroutine and the
\* interrupt listener with its unmount calls as they were; a step of the
\* interrupt listener leaves the snapshot counter, the attempts and the
\* snapshot channel as they were.
C19_ListenersAreIndependent ==
  [][ /\ attempts' # attempts
           => UNCHANGED << mount, serving, cpuStarts, cpuStops, deferStop,
                           exited, exitCode, pc, lpc, signals, notifyInt,
                           unmountCalls, unmountErr >>
      /\ (lpc' # lpc \/ unmountCalls' # unmountCalls)
           => UNCHANGED << i, attempts, profile, mpc, notifyUsr >> ]_vars

\* C19 witness: a snapshot is under way while the listener is inside
\* server.Unmount and main waits in server.Wait.
C19_Witness ==
  /\ Len(attempts) = 2
  /\ attempts[2].result = "writing"
  /\ lpc = "unmounting"
  /\ pc = "wait" /\ ~exited

\* C20: the interrupt listener calls server.Unmount only while the
\* filesystem is still mounted, never after it was unmounted from outside.
C20_UnmountOnlyWhileMounted ==
  [][ unmountCalls' > unmountCalls => mount = "mounted" ]_vars

=============================================================================
